---------------------------- MODULE Spec2Model ----------------------------
(***************************************************************************)
(* The filter-and-aggregation pipeline of the disaster dashboard            *)
(* (src/dash_app.py, src/utils.py).                                         *)
(*                                                                          *)
(* A DataFrame is a sequence of rows (records).  A missing number (NaN,    *)
(* None, NaT) is the value NaN below: every statistic, month and date of   *)
(* the dataset is non-negative, so a negative number is free to stand for  *)
(* "missing".  A multi-select widget value is a set; the empty set stands  *)
(* for both None and [] (the code tests them with `if value:` only).  The  *)
(* year slider's value is a sequence: <<>> (falsy) or <<first, last>>.     *)
(* A Python str made of digits is the sequence of its digits.              *)
(***************************************************************************)
EXTENDS Integers, Sequences, FiniteSets, TLC

VARIABLES
    data,                   \* the module-level DataFrame `data`
    selected_continent,     \* continent-dropdown.value
    selected_subregion,     \* subregion-dropdown.value
    selected_country,       \* country-dropdown.value
    selected_year,          \* year-slider.value
    selected_month,         \* month-dropdown.value
    selected_disaster_type, \* disaster-type-checkbox.value
    subregion_options,      \* subregion-dropdown.options
    country_options,        \* country-dropdown.options
    store,                  \* store-data.data
    cards,                  \* the outputs of update_stat_cards
    bar_fig,                \* stacked-bar-chart.figure (its data frame)
    line_fig,               \* casualty-trend.figure (its data frame and mean)
    damage_map,             \* map-total-damage.figure (its data frame and colours)
    count_map,              \* map-disaster-count.figure (its data frame and colours)
    call,                   \* a call of a function of utils.py and what it returned
    pending,                \* callbacks the renderer has still to run
    last                    \* the callbacks that raised when the last input changed

vars == <<data, selected_continent, selected_subregion, selected_country,
          selected_year, selected_month, selected_disaster_type,
          subregion_options, country_options, store, cards, bar_fig,
          line_fig, damage_map, count_map, call, pending, last>>

widgets == <<selected_continent, selected_subregion, selected_country,
             selected_year, selected_month, selected_disaster_type>>

outputs == <<cards, bar_fig, line_fig, damage_map, count_map>>

-----------------------------------------------------------------------------
(* Missing values and Python strings of digits *)

NaN == 0 - 1

IsNaN(v) == v < 0

\* str(n) for a non-negative integer n: its decimal digits.
RECURSIVE Str(_)
Str(n) == IF n < 10 THEN <<n>> ELSE Append(Str(n \div 10), n % 10)

\* int(s) for a string of digits (Series.astype(int) on the year column).
RECURSIVE int_of(_)
int_of(s) == IF Len(s) = 0 THEN 0
             ELSE 10 * int_of(SubSeq(s, 1, Len(s) - 1)) + s[Len(s)]

\* Python's s < t on strings: lexicographic by character, a proper prefix first.
RECURSIVE StrLt(_, _)
StrLt(s, t) ==
    IF Len(t) = 0 THEN FALSE
    ELSE IF Len(s) = 0 THEN TRUE
    ELSE IF s[1] # t[1] THEN s[1] < t[1]
    ELSE StrLt(Tail(s), Tail(t))

StrLe(s, t) == s = t \/ StrLt(s, t)

StrGe(s, t) == ~StrLt(s, t)

-----------------------------------------------------------------------------
(* The dataset *)

\* Largest number of rows of the spreadsheet the model loads.
MaxRecords == 5

\* Rows of dataset/cleaned_emrat.xlsx as pd.read_excel returns them.  A country
\* determines its region and subregion.  Row 4 has a three-digit year and row 5
\* no month: the schema bounds neither.
Excel == <<
    [id |-> 1, country |-> "India", region |-> "Asia", subregion |-> "Southern Asia",
     type |-> "Flood", year |-> 2010, month |-> 7,
     total_deaths |-> 100, total_affected |-> 500, total_damage |-> 2000000, last_update |-> 3],
    [id |-> 2, country |-> "Japan", region |-> "Asia", subregion |-> "Eastern Asia",
     type |-> "Flood", year |-> 2010, month |-> 3,
     total_deaths |-> 50, total_affected |-> 500, total_damage |-> NaN, last_update |-> 5],
    [id |-> 3, country |-> "France", region |-> "Europe", subregion |-> "Western Europe",
     type |-> "Storm", year |-> 2005, month |-> 7,
     total_deaths |-> NaN, total_affected |-> 500, total_damage |-> 1500000000, last_update |-> NaN],
    [id |-> 4, country |-> "India", region |-> "Asia", subregion |-> "Southern Asia",
     type |-> "Storm", year |-> 201, month |-> 3,
     total_deaths |-> 7, total_affected |-> 0, total_damage |-> 10, last_update |-> 1],
    [id |-> 5, country |-> "Japan", region |-> "Asia", subregion |-> "Eastern Asia",
     type |-> "Storm", year |-> 2015, month |-> NaN,
     total_deaths |-> 1, total_affected |-> 2, total_damage |-> 1000, last_update |-> 4],
    [id |-> 6, country |-> "France", region |-> "Europe", subregion |-> "Western Europe",
     type |-> "Flood", year |-> 2024, month |-> 12,
     total_deaths |-> 9, total_affected |-> NaN, total_damage |-> 70, last_update |-> 6],
    [id |-> 7, country |-> "Chad", region |-> "Africa", subregion |-> "Middle Africa",
     type |-> "Flood", year |-> 2000, month |-> 1,
     total_deaths |-> 4, total_affected |-> 8, total_damage |-> NaN, last_update |-> 2] >>

\* The spreadsheets the model loads: the first n rows, 1 <= n <= MaxRecords.
Spreadsheets == { SubSeq(Excel, 1, n) : n \in 1..MaxRecords }

\* Spreadsheets in which one country has tens of rows: the largest one followed
\* by n more rows like row `row`.
more_rows(row, n) == [i \in 1..n |-> [Excel[row] EXCEPT !.id = 100 * row + i]]

LongSpreadsheets == { SubSeq(Excel, 1, MaxRecords) \o more_rows(2, 18),
                      SubSeq(Excel, 1, MaxRecords) \o more_rows(2, 25),
                      SubSeq(Excel, 1, MaxRecords) \o more_rows(1, 55) }

\* A spreadsheet with a record older than the year slider's minimum, the only
\* record of its country: the schema does not bound the year.
EarlierSpreadsheet ==
    SubSeq(Excel, 1, 2) \o <<[Excel[7] EXCEPT !.year = 2000 - 1]>>

\* data['year'] = data['year'].astype(str)
LoadData(sheet) == [i \in 1..Len(sheet) |-> [sheet[i] EXCEPT !.year = Str(@)]]

Range(s) == { s[i] : i \in 1..Len(s) }

\* Series.isin(values)
isin(v, values) == v \in values

-----------------------------------------------------------------------------
(* store_data *)

\* filtered_data['month'] = filtered_data['month'].astype(int): casting a column
\* that holds NaN raises; otherwise every month keeps its integer value.  The
\* faulty variant month_astype_int_fillna fills the missing months with 0 first.
month_astype_int_fillna(rows) ==
    [raised |-> FALSE,
     rows   |-> [i \in 1..Len(rows) |->
                   [rows[i] EXCEPT !.month = IF IsNaN(@) THEN 0 ELSE @]]]

month_astype_int(rows) ==
    IF \E i \in 1..Len(rows) : IsNaN(rows[i].month)
    THEN [raised |-> TRUE,  rows |-> rows]
    ELSE [raised |-> FALSE, rows |-> [i \in 1..Len(rows) |-> [rows[i] EXCEPT !.month = @]]]

\* (data['year'] >= str(selected_year[0])) & (data['year'] <= str(selected_year[1]))
year_mask(row, year) ==
    StrGe(row.year, Str(year[1])) /\ StrLe(row.year, Str(year[2]))

\* A faulty variant of row_mask: the disaster-type test is made even when no type is
\* selected, so that an empty selection matches no row.
row_mask_type_always(row, continent, subregion, country, year, month, dtype) ==
    /\ (continent # {}) => isin(row.region, continent)
    /\ (subregion # {}) => isin(row.subregion, subregion)
    /\ (country # {})   => isin(row.country, country)
    /\ (Len(year) > 0)  => StrGe(row.year, Str(year[1])) /\ StrLe(row.year, Str(year[2]))
    /\ (month # {})     => isin(row.month, month)
    /\ isin(row.type, dtype)

\* The combined mask of store_data for one row.
row_mask(row, continent, subregion, country, year, month, dtype) ==
    /\ (continent # {}) => isin(row.region, continent)
    /\ (subregion # {}) => isin(row.subregion, subregion)
    /\ (country # {})   => isin(row.country, country)
    /\ (Len(year) > 0)  => year_mask(row, year)
    /\ (month # {})     => isin(row.month, month)
    /\ (dtype # {})     => isin(row.type, dtype)

\* filtered_data[mask] with the mask one position out of line with the rows
\* (the mask is built on a fresh RangeIndex): a faulty variant of filter_rows.
filter_rows_shifted(rows, continent, subregion, country, year, month, dtype) ==
    LET keep(i) == i < Len(rows) /\
                   row_mask(rows[i + 1], continent, subregion, country, year, month, dtype)
        RECURSIVE take(_)
        take(i) == IF i > Len(rows) THEN <<>>
                   ELSE (IF keep(i) THEN <<rows[i]>> ELSE <<>>) \o take(i + 1)
    IN  take(1)

\* filtered_data[mask].to_dict(orient='records')
filter_rows(rows, continent, subregion, country, year, month, dtype) ==
    LET RECURSIVE take(_)
        take(i) == IF i > Len(rows) THEN <<>>
                   ELSE (IF row_mask(rows[i], continent, subregion, country, year, month, dtype)
                         THEN <<rows[i]>> ELSE <<>>) \o take(i + 1)
    IN  take(1)

\* store_data on the frame `rows`: whether it raised, the frame as the call
\* leaves it, and the records it returns.
store_data(rows, continent, subregion, country, year, month, dtype) ==
    LET cast == IF month # {} THEN month_astype_int(rows)
                ELSE [raised |-> FALSE, rows |-> rows]
    IN  IF cast.raised
        THEN [raised |-> TRUE, frame |-> rows, records |-> <<>>]
        ELSE [raised  |-> FALSE,
              frame   |-> cast.rows,
              records |-> filter_rows(cast.rows, continent, subregion, country,
                                      year, month, dtype)]

-----------------------------------------------------------------------------
(* update_subregions and update_countries *)

\* Series.unique(): the distinct values in order of first appearance.
unique(s) ==
    LET first  == { i \in 1..Len(s) : \A j \in 1..(i - 1) : s[j] # s[i] }
        nth(k) == CHOOSE i \in first : Cardinality({ j \in first : j < i }) = k - 1
    IN  IF first = {} THEN <<>> ELSE [k \in 1..Cardinality(first) |-> s[nth(k)]]

\* The names of the dataset in Python's str order (by code point).
NameOrder == <<"Africa", "Asia", "Chad", "Eastern Asia", "Europe", "Flood", "France",
               "India", "Japan", "Middle Africa", "Southern Asia", "Storm",
               "Western Europe">>

\* Python's a < b on the names of the dataset.
name_lt(a, b) ==
    LET rank(n) == CHOOSE k \in 1..Len(NameOrder) : NameOrder[k] = n
    IN  rank(a) < rank(b)

\* sorted(names): insertion into an ascending list.
RECURSIVE sorted(_)
sorted(s) ==
    IF Len(s) = 0 THEN <<>>
    ELSE LET x    == s[Len(s)]
             rest == sorted(SubSeq(s, 1, Len(s) - 1))
             low  == SelectSeq(rest, LAMBDA y : ~name_lt(x, y))
             high == SelectSeq(rest, LAMBDA y : name_lt(x, y))
         IN  low \o <<x>> \o high

column(rows, field) == [i \in 1..Len(rows) |-> rows[i][field]]

\* A faulty variant of update_subregions: with no continent selected it lists the
\* subregions of every row instead of none.
update_subregions_all(rows, continent) ==
    unique(column(SelectSeq(rows, LAMBDA r : continent = {} \/ isin(r.region, continent)),
                  "subregion"))

\* update_subregions: the option values of the subregion dropdown.
update_subregions(rows, continent) ==
    IF continent # {}
    THEN unique(column(SelectSeq(rows, LAMBDA r : isin(r.region, continent)), "subregion"))
    ELSE <<>>

\* A faulty variant of update_countries: the list is left in order of appearance.
update_countries_unsorted(rows, continent, subregion) ==
    LET by_continent == IF continent # {}
                        THEN SelectSeq(rows, LAMBDA r : isin(r.region, continent))
                        ELSE rows
        by_subregion == IF subregion # {}
                        THEN SelectSeq(by_continent, LAMBDA r : isin(r.subregion, subregion))
                        ELSE by_continent
    IN  unique(column(by_subregion, "country"))

\* update_countries: the option values of the country dropdown.
update_countries(rows, continent, subregion) ==
    LET by_continent == IF continent # {}
                        THEN SelectSeq(rows, LAMBDA r : isin(r.region, continent))
                        ELSE rows
        by_subregion == IF subregion # {}
                        THEN SelectSeq(by_continent, LAMBDA r : isin(r.subregion, subregion))
                        ELSE by_continent
    IN  sorted(unique(column(by_subregion, "country")))

-----------------------------------------------------------------------------
(* update_stat_cards, plot_bar_total_disaster, plot_line_casualty_trend *)

\* Series.sum(skipna=False), NaN as soon as one value is missing: a faulty
\* variant of col_sum.
col_sum_propagating(rows, field) ==
    IF \E i \in 1..Len(rows) : IsNaN(rows[i][field]) THEN NaN
    ELSE LET RECURSIVE add(_)
             add(i) == IF i > Len(rows) THEN 0 ELSE rows[i][field] + add(i + 1)
         IN  add(1)

\* Series.sum(): the missing values are skipped, and the sum of none is 0.
RECURSIVE col_sum(_, _)
col_sum(rows, field) ==
    IF Len(rows) = 0 THEN 0
    ELSE (IF IsNaN(rows[1][field]) THEN 0 ELSE rows[1][field]) + col_sum(Tail(rows), field)

\* Series.max() on the dates: the missing ones are skipped; NaT when all are.
RECURSIVE col_max(_, _)
col_max(rows, field) ==
    IF Len(rows) = 0 THEN NaN
    ELSE LET m == col_max(Tail(rows), field)
             v == rows[1][field]
         IN  IF IsNaN(v) THEN m ELSE IF m > v THEN m ELSE v

\* groupby('country', sort=False)[field].sum(), the keys in order of first
\* appearance: a faulty variant of groupby_country_sum.
groupby_country_sum_unsorted(rows, field) ==
    LET keys == unique(column(rows, "country"))
    IN  [k \in 1..Len(keys) |->
           [country |-> keys[k],
            value   |-> col_sum(SelectSeq(rows, LAMBDA r : r.country = keys[k]), field)]]

\* groupby('country')[field].sum(): one row per country, the keys sorted.
groupby_country_sum(rows, field) ==
    LET keys == sorted(unique(column(rows, "country")))
    IN  [k \in 1..Len(keys) |->
           [country |-> keys[k],
            value   |-> col_sum(SelectSeq(rows, LAMBDA r : r.country = keys[k]), field)]]

\* Series.idxmax(): the label of the first occurrence of the maximum.
idxmax(series) ==
    LET best == CHOOSE k \in 1..Len(series) :
                  /\ \A j \in 1..Len(series) : series[j].value <= series[k].value
                  /\ \A j \in 1..(k - 1) : series[j].value < series[k].value
    IN  series[best].country

\* The three totals of update_stat_cards.
totals(rows) ==
    [total_deaths   |-> col_sum(rows, "total_deaths"),
     total_affected |-> col_sum(rows, "total_affected"),
     total_damage   |-> col_sum(rows, "total_damage")]

\* update_stat_cards on the records of store-data.  pd.DataFrame([]) has no
\* columns, so filtered_data['last_update'] raises KeyError before any total
\* is computed; NaT.strftime raises ValueError.
update_stat_cards(records) ==
    LET empty        == Len(records) = 0
        most(field)  == IF ~empty THEN idxmax(groupby_country_sum(records, field))
                        ELSE "N/A"
        last_updated == col_max(records, "last_update")
    IN  IF empty THEN [status |-> "raised", error |-> "KeyError"]
        ELSE IF IsNaN(last_updated) THEN [status |-> "raised", error |-> "ValueError"]
        ELSE [status                |-> "ok",
              total_deaths          |-> totals(records).total_deaths,
              total_affected        |-> totals(records).total_affected,
              total_damage          |-> totals(records).total_damage,
              most_deaths_country   |-> most("total_deaths"),
              most_affected_country |-> most("total_affected"),
              most_damaged_country  |-> most("total_damage"),
              last_updated_str      |-> [text |-> "Data last update", date |-> last_updated]]

\* The rows of a groupby on (year, type) or on year: the keys sorted, the year
\* (a str) by Python's str order.
key_lt(a, b) ==
    \/ StrLt(a.year, b.year)
    \/ a.year = b.year /\ name_lt(a.type, b.type)

RECURSIVE sort_keys(_)
sort_keys(keys) ==
    IF keys = {} THEN <<>>
    ELSE LET least == CHOOSE k \in keys : \A o \in keys \ {k} : key_lt(k, o)
         IN  <<least>> \o sort_keys(keys \ {least})

\* plot_bar_total_disaster: the frame handed to px.bar.  On the frame without
\* columns groupby(['year', 'type']) raises KeyError.
plot_bar_total_disaster(records) ==
    IF Len(records) = 0 THEN [status |-> "raised", error |-> "KeyError"]
    ELSE LET keys == sort_keys({ [year |-> records[i].year, type |-> records[i].type] :
                                  i \in 1..Len(records) })
         IN  [status |-> "ok",
              rows   |-> [k \in 1..Len(keys) |->
                            [year |-> int_of(keys[k].year),
                             type |-> keys[k].type,
                             total_disasters |->
                                Len(SelectSeq(records, LAMBDA r : r.year = keys[k].year
                                                                  /\ r.type = keys[k].type))]]]

\* The trend line with the mean of total_deaths taken over the records instead
\* of over the years: a faulty variant of plot_line_casualty_trend.
plot_line_casualty_trend_by_records(records) ==
    IF Len(records) = 0 THEN [status |-> "raised", error |-> "KeyError"]
    ELSE LET keys == sort_keys({ [year |-> records[i].year, type |-> "Flood"] :
                                  i \in 1..Len(records) })
         IN  [status     |-> "ok",
              mean_death |-> [sum |-> col_sum(records, "total_deaths"), count |-> Len(records)],
              rows       |-> [k \in 1..Len(keys) |->
                                [year |-> int_of(keys[k].year),
                                 total_deaths |->
                                    col_sum(SelectSeq(records, LAMBDA r : r.year = keys[k].year),
                                            "total_deaths")]]]

\* plot_line_casualty_trend: the frame handed to px.area and the mean of its
\* total_deaths column, kept as the fraction sum / count.
plot_line_casualty_trend(records) ==
    IF Len(records) = 0 THEN [status |-> "raised", error |-> "KeyError"]
    ELSE LET \* groupby(['year']): the key has no type, so one stands for all
             keys == sort_keys({ [year |-> records[i].year, type |-> "Flood"] :
                                  i \in 1..Len(records) })
             rows == [k \in 1..Len(keys) |->
                        [year |-> keys[k].year,
                         total_deaths |->
                            col_sum(SelectSeq(records, LAMBDA r : r.year = keys[k].year),
                                    "total_deaths")]]
         IN  [status     |-> "ok",
              mean_death |-> [sum |-> col_sum(rows, "total_deaths"), count |-> Len(rows)],
              rows       |-> [k \in 1..Len(rows) |->
                                [rows[k] EXCEPT !.year = int_of(@)]]]

-----------------------------------------------------------------------------
(* The two choropleth maps *)

\* map_color of utils.py
map_color == <<"#96BBBB", "#FEDC85", "#FEB945", "#C44802", "#712805">>

\* The country of a placeholder row: Python's None.
None == "None"

\* The category pd.cut gives a value outside every bin.
nan == "nan"

\* The bins and labels of mapA_damage_choropleth.  bins holds the finite edges,
\* each a multiple of unit; the last edge, float('inf'), closes the last bin.
damage_bins_K ==
    [bins |-> <<0, 1000, 10000, 100000, 1000000>>, unit |-> 1,
     labels |-> <<"0 - 1K", "1K - 10K", "10K - 100K", "100K - 1M", "> 1M">>]

damage_bins_M ==
    [bins |-> <<0, 1000000, 10000000, 100000000, 1000000000>>, unit |-> 1,
     labels |-> <<"0 - 1M", "1M - 10M", "10M - 100M", "100M - 1B", "> 1B">>]

damage_bins_B ==
    [bins |-> <<0, 1, 10, 100>>, unit |-> 1000000000,
     labels |-> <<"0 - 1B", "1B - 10B", "10B - 100B", "> 100B">>]

\* The bins and labels of mapB_disaster_count_choropleth.
count_bins_low ==
    [bins |-> <<0, 10, 20, 30, 40>>, unit |-> 1,
     labels |-> <<"0 - 10", "10 - 20", "20 - 30", "30 - 40", "> 40">>]

count_bins_mid ==
    [bins |-> <<0, 15, 25, 50, 100>>, unit |-> 1,
     labels |-> <<"0 - 15", "15 - 25", "25 - 50", "50 - 100", "> 100">>]

count_bins_high ==
    [bins |-> <<0, 50, 100, 200, 300>>, unit |-> 1,
     labels |-> <<"0 - 50", "50 - 100", "100 - 200", "200 - 300", "> 300">>]

\* v > edge * unit, without forming the product
above(v, edge, unit) == (v \div unit > edge) \/ (v \div unit = edge /\ v % unit > 0)

\* pd.cut without include_lowest: a faulty variant of pd_cut, in which the
\* lowest edge belongs to no bin.
pd_cut_open_lowest(v, table) ==
    LET n == Len(table.bins)
        within(i) == /\ above(v, table.bins[i], table.unit)
                     /\ (i = n \/ ~above(v, table.bins[i + 1], table.unit))
    IN  IF \E i \in 1..n : within(i) THEN table.labels[CHOOSE i \in 1..n : within(i)]
        ELSE nan

\* v >= edge * unit
at_least(v, edge, unit) == v \div unit >= edge

\* pd.cut with right=False, bins closed on the left and open on the right: a
\* faulty variant of pd_cut.
pd_cut_left_closed(v, table) ==
    LET n == Len(table.bins)
        within(i) == /\ at_least(v, table.bins[i], table.unit)
                     /\ (i = n \/ ~at_least(v, table.bins[i + 1], table.unit))
    IN  IF \E i \in 1..n : within(i) THEN table.labels[CHOOSE i \in 1..n : within(i)]
        ELSE nan

\* pd.cut(value, bins=bins, labels=labels, include_lowest=True): the bins are
\* closed on the right (right=True is the default), the first one on both sides.
pd_cut(v, table) ==
    LET n == Len(table.bins)
        within(i) == /\ above(v, table.bins[i], table.unit)
                     /\ (i = n \/ ~above(v, table.bins[i + 1], table.unit))
    IN  IF v = table.bins[1] * table.unit THEN table.labels[1]
        ELSE IF \E i \in 1..n : within(i) THEN table.labels[CHOOSE i \in 1..n : within(i)]
        ELSE nan

\* Series.median(): the two middle values of the column in ascending order
\* (the same value twice when the length is odd); the median is their mean.
median(values) ==
    LET n == Len(values)
        below(x)  == Cardinality({ i \in 1..n : values[i] < x })
        upto(x)   == Cardinality({ i \in 1..n : values[i] <= x })
        kth(k)    == CHOOSE x \in Range(values) : below(x) < k /\ k <= upto(x)
    IN  [lo |-> kth((n + 1) \div 2), hi |-> kth((n \div 2) + 1)]

\* median < t and median <= t for the mean of the two middle values lo <= hi,
\* without forming their sum
median_lt(m, t) == m.hi < t \/ (m.lo < t /\ t - m.lo > m.hi - t)

median_le(m, t) == m.hi <= t \/ (m.lo < t /\ t - m.lo >= m.hi - t)

\* The position of a category among the labels; a missing category sorts last.
category_code(labels, category) ==
    IF category \in Range(labels)
    THEN CHOOSE i \in 1..Len(labels) : labels[i] = category
    ELSE Len(labels) + 1

\* The rows left in the order they had: a faulty variant of sort_values.
sort_values_unsorted(rows, labels) == rows

\* sort_values(category): the rows in the order of their category's position,
\* rows of one category in the order they had.
sort_values(rows, labels) ==
    LET RECURSIVE from(_)
        from(code) ==
            IF code > Len(labels) + 1 THEN <<>>
            ELSE SelectSeq(rows, LAMBDA r : category_code(labels, r.category) = code)
                 \o from(code + 1)
    IN  from(1)

\* The rows appended for the labels no country fell under, without any row: a
\* faulty variant of add_missing.
add_missing_none(rows, table, value) == rows

\* missing_categories and pd.concat([..., missing_df]): one row with country
\* None and the given value for every label that no row has.
add_missing(rows, table, value) ==
    LET existing == { rows[i].category : i \in 1..Len(rows) } \ {nan}
        missing  == SelectSeq(table.labels, LAMBDA l : l \notin existing)
    IN  rows \o [k \in 1..Len(missing) |->
                   [country |-> None, value |-> value, category |-> missing[k]]]

\* category_color = {labels[i]: map_color[i] for i in range(len(labels))}
category_color(labels) ==
    [l \in Range(labels) |-> map_color[category_code(labels, l)]]

\* The frame and colours a map hands to px.choropleth: the merged rows cut into
\* the table's categories, the placeholder rows added, sorted by category.
categorized(merged, table, value) ==
    LET cut == [i \in 1..Len(merged) |->
                  [country  |-> merged[i].country,
                   value    |-> merged[i].value,
                   category |-> pd_cut(merged[i].value, table)]]
    IN  [status         |-> "ok",
         labels         |-> table.labels,
         rows           |-> sort_values(add_missing(cut, table, value), table.labels),
         category_color |-> category_color(table.labels)]

\* merge(agg, on='country', how='left'): every record with its country's
\* aggregate, here in the column `value`.
merge(records, agg) ==
    [i \in 1..Len(records) |->
       [country |-> records[i].country,
        value   |-> (CHOOSE a \in Range(agg) : a.country = records[i].country).value]]

\* groupby('country')['id'].count(): one row per country, the keys sorted.
groupby_country_count(rows) ==
    LET keys == sorted(unique(column(rows, "country")))
    IN  [k \in 1..Len(keys) |->
           [country |-> keys[k],
            value   |-> Len(SelectSeq(rows, LAMBDA r : r.country = keys[k]))]]

\* The table of mapB with < in place of <=: a faulty variant of count_table.
count_table_strict(m) ==
    IF median_lt(m, 20) THEN count_bins_low
    ELSE IF median_lt(m, 50) THEN count_bins_mid
    ELSE count_bins_high

\* The bins and labels mapA selects by the median.
damage_table(m) ==
    IF median_lt(m, 1000000) THEN damage_bins_K
    ELSE IF median_lt(m, 1000000000) THEN damage_bins_M
    ELSE damage_bins_B

\* The bins and labels mapB selects by the median.
count_table(m) ==
    IF median_le(m, 20) THEN count_bins_low
    ELSE IF median_le(m, 50) THEN count_bins_mid
    ELSE count_bins_high

\* mapA_damage_choropleth: damage_by_country of every record, its median, the
\* table the median selects, and the categorized frame.  On the frame without
\* columns groupby('country') raises KeyError.
mapA_damage_choropleth(records) ==
    IF Len(records) = 0 THEN [status |-> "raised", error |-> "KeyError"]
    ELSE LET merged == merge(records, groupby_country_sum(records, "total_damage"))
         IN  categorized(merged, damage_table(median(column(merged, "value"))), 0)

\* mapB_disaster_count_choropleth: total_disasters of every record, its median,
\* the table the median selects, and the categorized frame.
mapB_disaster_count_choropleth(records) ==
    IF Len(records) = 0 THEN [status |-> "raised", error |-> "KeyError"]
    ELSE LET merged == merge(records, groupby_country_count(records))
         IN  categorized(merged, count_table(median(column(merged, "value"))), 1)

-----------------------------------------------------------------------------
(* The values the callbacks are invoked with *)

\* disaster_types = sorted(data['type'].unique()), as a set
disaster_types(rows) == { rows[i].type : i \in 1..Len(rows) }

ContinentChoices == SUBSET {"Asia", "Europe"}

SubregionChoices == {{}, {"Eastern Asia"}, {"Western Europe"},
                     {"Eastern Asia", "Western Europe"}}

CountryChoices == {{}, {"Japan"}, {"France", "India"}}

YearChoices == {<<>>, <<2000, 2024>>, <<2010, 2010>>, <<2005, 2010>>}

MonthChoices == {{}, {7}, {3, 7}}

TypeChoices == SUBSET {"Flood", "Storm"}

Unset == [status |-> "unset"]

-----------------------------------------------------------------------------
(* Spec: the filter callbacks, run as an input change triggers them *)

\* The page as loaded: the widgets hold the layout's values and Dash has run
\* every filter callback once with them.
Init ==
    /\ data \in { LoadData(sheet) : sheet \in Spreadsheets \cup {EarlierSpreadsheet} }
    /\ selected_continent = {}
    /\ selected_subregion = {}
    /\ selected_country = {}
    /\ selected_year = <<2000, 2024>>
    /\ selected_month = {}
    /\ selected_disaster_type = disaster_types(data)
    /\ subregion_options = update_subregions(data, {})
    /\ country_options = update_countries(data, {}, {})
    /\ store = store_data(data, {}, {}, {}, <<2000, 2024>>, {}, disaster_types(data)).records
    /\ cards = Unset
    /\ bar_fig = Unset
    /\ line_fig = Unset
    /\ damage_map = Unset
    /\ count_map = Unset
    /\ call = Unset
    /\ pending = {}
    /\ last = [raised |-> {}]

\* Dash invokes store_data with the current value of its six inputs whenever
\* one of them changes.  A callback that raises leaves its output as it was.
CallStoreData(continent, subregion, country, year, month, dtype) ==
    LET r == store_data(data, continent, subregion, country, year, month, dtype)
    IN  /\ selected_continent' = continent
        /\ selected_subregion' = subregion
        /\ selected_country' = country
        /\ selected_year' = year
        /\ selected_month' = month
        /\ selected_disaster_type' = dtype
        /\ data' = r.frame
        /\ store' = IF r.raised THEN store ELSE r.records
        /\ last' = [raised |-> IF r.raised THEN {"store_data"} ELSE {}]
        /\ UNCHANGED <<outputs, call, pending>>

\* The continent dropdown changes: store_data, update_subregions and
\* update_countries run.
OnContinent ==
    \E v \in ContinentChoices \ {selected_continent} :
        /\ CallStoreData(v, selected_subregion, selected_country, selected_year,
                         selected_month, selected_disaster_type)
        /\ subregion_options' = update_subregions(data, v)
        /\ country_options' = update_countries(data, v, selected_subregion)

\* The subregion dropdown changes: store_data and update_countries run.
OnSubregion ==
    \E v \in SubregionChoices \ {selected_subregion} :
        /\ CallStoreData(selected_continent, v, selected_country, selected_year,
                         selected_month, selected_disaster_type)
        /\ country_options' = update_countries(data, selected_continent, v)
        /\ UNCHANGED subregion_options

OnCountry ==
    \E v \in CountryChoices :
        /\ CallStoreData(selected_continent, selected_subregion, v, selected_year,
                         selected_month, selected_disaster_type)
        /\ UNCHANGED <<subregion_options, country_options>>

OnYear ==
    \E v \in YearChoices :
        /\ CallStoreData(selected_continent, selected_subregion, selected_country, v,
                         selected_month, selected_disaster_type)
        /\ UNCHANGED <<subregion_options, country_options>>

OnMonth ==
    \E v \in MonthChoices :
        /\ CallStoreData(selected_continent, selected_subregion, selected_country,
                         selected_year, v, selected_disaster_type)
        /\ UNCHANGED <<subregion_options, country_options>>

OnDisasterType ==
    \E v \in TypeChoices :
        /\ CallStoreData(selected_continent, selected_subregion, selected_country,
                         selected_year, selected_month, v)
        /\ UNCHANGED <<subregion_options, country_options>>

Next ==
    \/ OnContinent
    \/ OnSubregion
    \/ OnCountry
    \/ OnYear
    \/ OnMonth
    \/ OnDisasterType

Spec == Init /\ [][Next]_vars

-----------------------------------------------------------------------------
(* The filter claims, checked under Spec *)

Returned == "store_data" \notin last.raised

\* The spreadsheet `data` was loaded from.
Loaded ==
    LoadData(CHOOSE sheet \in Spreadsheets \cup {EarlierSpreadsheet} :
                 column(sheet, "id") = column(data, "id"))

\* A row satisfies every non-empty criterion, the year compared as a number.
Matches(row) ==
    /\ (selected_continent # {}) => row.region \in selected_continent
    /\ (selected_subregion # {}) => row.subregion \in selected_subregion
    /\ (selected_country # {})   => row.country \in selected_country
    /\ (Len(selected_year) > 0)  => /\ selected_year[1] <= int_of(row.year)
                                    /\ int_of(row.year) <= selected_year[2]
    /\ (selected_month # {})     => row.month \in selected_month
    /\ (selected_disaster_type # {}) => row.type \in selected_disaster_type

\* Every dimension of the criteria is empty or absent.
NoCriteria ==
    /\ selected_continent = {}
    /\ selected_subregion = {}
    /\ selected_country = {}
    /\ Len(selected_year) = 0
    /\ selected_month = {}
    /\ selected_disaster_type = {}

\* s holds rows of t only, each once, in t's order.
IsSubSeq(s, t) ==
    /\ \A i \in 1..Len(s) : \E k \in 1..Len(t) : t[k] = s[i]
    /\ \A i, j \in 1..Len(s) :
         i < j => \E k, l \in 1..Len(t) : k < l /\ t[k] = s[i] /\ t[l] = s[j]

\* C1: when store_data returns, the stored records are exactly the rows of
\* the dataset that satisfy every non-empty criterion (AND across dimensions,
\* OR within one, the year within the range as a number), in dataset order.
C1_StoreIsMatchingRows ==
    Returned => store = SelectSeq(data, Matches)

\* C2: with a year range selected, a row that passes the other criteria is
\* stored iff first <= year <= last as integers, whatever the year's number of
\* digits.
C2_YearComparedAsInteger ==
    (Returned /\ Len(selected_year) > 0) =>
        \A i \in 1..Len(data) :
            LET row == data[i]
                y   == Loaded[i].year
                others == row_mask(row, selected_continent, selected_subregion,
                                   selected_country, <<>>, selected_month,
                                   selected_disaster_type)
            IN  others =>
                  ((row \in Range(store)) <=>
                   (selected_year[1] <= int_of(y) /\ int_of(y) <= selected_year[2]))

\* C3: the stored records are a subset of the dataset (its rows, once each, in
\* its order), and store_data with the same criteria on the stored records
\* returns them unchanged.
C3_SubsetAndIdempotent ==
    Returned =>
        LET again == store_data(store, selected_continent, selected_subregion,
                                selected_country, selected_year, selected_month,
                                selected_disaster_type)
        IN  /\ IsSubSeq(store, data)
            /\ ~again.raised
            /\ again.records = store

C3_Witness ==
    /\ Returned
    /\ 0 < Len(store)
    /\ Len(store) < Len(data)
    /\ selected_month # {}
    /\ Len(selected_year) > 0
    /\ selected_continent # {}

C4_Witness ==
    /\ NoCriteria
    /\ Len(store) >= 3
    /\ \E i \in 1..Len(store) : IsNaN(store[i].total_damage)

\* C4: with every dimension of the criteria empty or absent store_data returns
\* every row of the dataset, so the totals of the result are the dataset's.
C4_NoCriteriaReturnsAll ==
    NoCriteria =>
        /\ Returned
        /\ store = data
        /\ totals(store) = totals(Loaded)

\* C5: the module-level dataset is as loaded, whatever filter callbacks have
\* run and whatever months they were given.
C5_StoreNeverModified ==
    data = Loaded

C5_Witness ==
    /\ selected_month # {}
    /\ Returned
    /\ Len(store) > 0
    /\ Len(data) >= 3

\* Every subregion / country of the list is one of a row that passes.
PassesContinent(row) == selected_continent # {} => row.region \in selected_continent

PassesSubregion(row) == selected_subregion # {} => row.subregion \in selected_subregion

NoDuplicates(s) == \A i, j \in 1..Len(s) : s[i] = s[j] => i = j

Ascending(s) == \A i, j \in 1..Len(s) : i < j => name_lt(s[i], s[j])

FirstRow(field, v) == CHOOSE k \in 1..Len(data) :
                        /\ data[k][field] = v
                        /\ \A j \in 1..(k - 1) : data[j][field] # v

\* C6 as claimed: the subregion options are the duplicate-free ascending list
\* of the subregions of the rows whose continent is selected, and of all rows
\* when no continent is selected.
C6_SubregionsSortedOrAll ==
    /\ Range(subregion_options) = { data[i].subregion : i \in { k \in 1..Len(data) : PassesContinent(data[k]) } }
    /\ Ascending(subregion_options)

\* C6 as amended: the subregion options are the duplicate-free list of the
\* subregions of the rows whose continent is selected, in order of first
\* appearance in the dataset, and the empty list when no continent is selected.
C6_SubregionsByAppearance ==
    /\ selected_continent = {} => subregion_options = <<>>
    /\ selected_continent # {} =>
         /\ Range(subregion_options) =
              { data[i].subregion : i \in { k \in 1..Len(data) : data[k].region \in selected_continent } }
         /\ NoDuplicates(subregion_options)
         /\ \A i, j \in 1..Len(subregion_options) :
              i < j => FirstRow("subregion", subregion_options[i])
                         < FirstRow("subregion", subregion_options[j])

C6_Witness ==
    /\ selected_continent # {}
    /\ Len(subregion_options) >= 2
    /\ Cardinality({ i \in 1..Len(data) : data[i].region \in selected_continent })
         > Len(subregion_options)

\* C7: the country options are the duplicate-free ascending list of the
\* countries of the rows that pass the continent filter (if any) and the
\* subregion filter (if any); a country whose continent is not among the
\* selected continents is not listed.
C7_CountriesSortedDistinct ==
    /\ Range(country_options) =
         { data[i].country : i \in { k \in 1..Len(data) :
                                       PassesContinent(data[k]) /\ PassesSubregion(data[k]) } }
    /\ Ascending(country_options)
    /\ selected_continent # {} =>
         \A i \in 1..Len(data) :
            data[i].region \notin selected_continent => data[i].country \notin Range(country_options)

C7_Witness ==
    /\ selected_continent = {"Asia"}
    /\ selected_subregion = {}
    /\ Len(country_options) >= 2
    /\ \E i \in 1..Len(data) : data[i].country = "France"

-----------------------------------------------------------------------------
(* SpecAgg: the callbacks that have store-data as Input, run on a stored subset *)

ChartCallbacks == {"update_stat_cards", "plot_bar_total_disaster",
                   "plot_line_casualty_trend", "mapA_damage_choropleth",
                   "mapB_disaster_count_choropleth"}

\* store_data has just stored the subset of some criteria, which triggers the
\* callbacks that read it.
InitAgg ==
    /\ data \in { LoadData(sheet) : sheet \in Spreadsheets \cup LongSpreadsheets }
    /\ selected_continent \in ContinentChoices
    /\ selected_subregion = {}
    /\ selected_country \in CountryChoices
    /\ selected_year \in YearChoices
    /\ selected_month = {}
    /\ selected_disaster_type \in TypeChoices
    /\ subregion_options = update_subregions(data, selected_continent)
    /\ country_options = update_countries(data, selected_continent, selected_subregion)
    /\ store = store_data(data, selected_continent, selected_subregion, selected_country,
                          selected_year, selected_month, selected_disaster_type).records
    /\ cards = Unset
    /\ bar_fig = Unset
    /\ line_fig = Unset
    /\ damage_map = Unset
    /\ count_map = Unset
    /\ call = Unset
    /\ pending = ChartCallbacks
    /\ last = [raised |-> {}]

\* One chart callback runs; when it raises its output stays as it was.
Finish(callback, result) ==
    /\ pending' = pending \ {callback}
    /\ last' = [last EXCEPT !.raised = IF result.status = "raised" THEN @ \cup {callback}
                                     ELSE @]

RunUpdateStatCards ==
    /\ "update_stat_cards" \in pending
    /\ LET result == update_stat_cards(store)
       IN  /\ cards' = IF result.status = "raised" THEN cards ELSE result
           /\ Finish("update_stat_cards", result)
    /\ UNCHANGED <<data, widgets, subregion_options, country_options, store,
                   bar_fig, line_fig, damage_map, count_map, call>>

RunPlotBar ==
    /\ "plot_bar_total_disaster" \in pending
    /\ LET result == plot_bar_total_disaster(store)
       IN  /\ bar_fig' = IF result.status = "raised" THEN bar_fig ELSE result
           /\ Finish("plot_bar_total_disaster", result)
    /\ UNCHANGED <<data, widgets, subregion_options, country_options, store,
                   cards, line_fig, damage_map, count_map, call>>

RunPlotLine ==
    /\ "plot_line_casualty_trend" \in pending
    /\ LET result == plot_line_casualty_trend(store)
       IN  /\ line_fig' = IF result.status = "raised" THEN line_fig ELSE result
           /\ Finish("plot_line_casualty_trend", result)
    /\ UNCHANGED <<data, widgets, subregion_options, country_options, store,
                   cards, bar_fig, damage_map, count_map, call>>

RunMapA ==
    /\ "mapA_damage_choropleth" \in pending
    /\ LET result == mapA_damage_choropleth(store)
       IN  /\ damage_map' = IF result.status = "raised" THEN damage_map ELSE result
           /\ Finish("mapA_damage_choropleth", result)
    /\ UNCHANGED <<data, widgets, subregion_options, country_options, store,
                   cards, bar_fig, line_fig, count_map, call>>

RunMapB ==
    /\ "mapB_disaster_count_choropleth" \in pending
    /\ LET result == mapB_disaster_count_choropleth(store)
       IN  /\ count_map' = IF result.status = "raised" THEN count_map ELSE result
           /\ Finish("mapB_disaster_count_choropleth", result)
    /\ UNCHANGED <<data, widgets, subregion_options, country_options, store,
                   cards, bar_fig, line_fig, damage_map, call>>

NextAgg ==
    \/ RunUpdateStatCards
    \/ RunPlotBar
    \/ RunPlotLine
    \/ RunMapA
    \/ RunMapB

SpecAgg == InitAgg /\ [][NextAgg]_vars

Ran(callback) == callback \notin pending

\* C9: update_stat_cards on an empty subset returns "N/A" for the three
\* countries without raising, and on a subset of one record that record's
\* country.
C9_ArgmaxSentinelAndSingle ==
    (Ran("update_stat_cards") /\ Len(store) <= 1) =>
        /\ "update_stat_cards" \notin last.raised
        /\ LET expected == IF Len(store) = 0 THEN "N/A" ELSE store[1].country
           IN  /\ cards.most_deaths_country = expected
               /\ cards.most_affected_country = expected
               /\ cards.most_damaged_country = expected

\* C10: on the empty subset no aggregate callback raises: the totals are 0,
\* the last update is "N/A" and the two series are empty.
C10_EmptySubsetIsValidInput ==
    (pending = {} /\ Len(store) = 0) =>
        /\ last.raised = {}
        /\ cards.total_deaths = 0 /\ cards.total_affected = 0 /\ cards.total_damage = 0
        /\ cards.last_updated_str = [text |-> "Last update: N/A"]
        /\ bar_fig.rows = <<>>
        /\ line_fig.rows = <<>>

-----------------------------------------------------------------------------
(* SpecUI: the three location dropdowns and the callbacks they trigger *)

FilterCallbacks == {"store_data", "update_subregions", "update_countries"}

\* The layout as served, over the largest spreadsheet: the subregion and
\* country dropdowns have no options, nothing is selected, and Dash is about
\* to run every callback once.
InitUI ==
    /\ data = LoadData(SubSeq(Excel, 1, MaxRecords))
    /\ selected_continent = {}
    /\ selected_subregion = {}
    /\ selected_country = {}
    /\ selected_year = <<2000, 2024>>
    /\ selected_month = {}
    /\ selected_disaster_type = disaster_types(data)
    /\ subregion_options = <<>>
    /\ country_options = <<>>
    /\ store = <<>>
    /\ cards = Unset
    /\ bar_fig = Unset
    /\ line_fig = Unset
    /\ damage_map = Unset
    /\ count_map = Unset
    /\ call = Unset
    /\ pending = FilterCallbacks
    /\ last = [raised |-> {}]

\* A multi-select dropdown: the user adds one of the options offered or
\* removes one of the selected values.
Edited(value, options) ==
    { value \cup {o} : o \in Range(options) \ value } \cup { value \ {v} : v \in value }

\* options=[{'label': c, 'value': c} for c in continents]
continent_options == sorted(unique(column(data, "region")))

SelectContinent ==
    /\ \E v \in Edited(selected_continent, continent_options) : selected_continent' = v
    /\ pending' = pending \cup {"store_data", "update_subregions", "update_countries"}
    /\ UNCHANGED <<data, selected_subregion, selected_country, selected_year,
                   selected_month, selected_disaster_type, subregion_options,
                   country_options, store, outputs, call, last>>

SelectSubregion ==
    /\ \E v \in Edited(selected_subregion, subregion_options) : selected_subregion' = v
    /\ pending' = pending \cup {"store_data", "update_countries"}
    /\ UNCHANGED <<data, selected_continent, selected_country, selected_year,
                   selected_month, selected_disaster_type, subregion_options,
                   country_options, store, outputs, call, last>>

SelectCountry ==
    /\ \E v \in Edited(selected_country, country_options) : selected_country' = v
    /\ pending' = pending \cup {"store_data"}
    /\ UNCHANGED <<data, selected_continent, selected_subregion, selected_year,
                   selected_month, selected_disaster_type, subregion_options,
                   country_options, store, outputs, call, last>>

\* The callbacks write the outputs they declare: store-data.data and the two
\* `options`; none of them writes a dropdown's `value`.
RunStoreData ==
    /\ "store_data" \in pending
    /\ LET r == store_data(data, selected_continent, selected_subregion, selected_country,
                           selected_year, selected_month, selected_disaster_type)
       IN  /\ data' = r.frame
           /\ store' = IF r.raised THEN store ELSE r.records
           /\ last' = [raised |-> IF r.raised THEN last.raised \cup {"store_data"}
                                  ELSE last.raised \ {"store_data"}]
    /\ pending' = pending \ {"store_data"}
    /\ UNCHANGED <<widgets, subregion_options, country_options, outputs, call>>

RunUpdateSubregions ==
    /\ "update_subregions" \in pending
    /\ subregion_options' = update_subregions(data, selected_continent)
    /\ pending' = pending \ {"update_subregions"}
    /\ UNCHANGED <<data, widgets, country_options, store, outputs, call, last>>

RunUpdateCountries ==
    /\ "update_countries" \in pending
    /\ country_options' = update_countries(data, selected_continent, selected_subregion)
    /\ pending' = pending \ {"update_countries"}
    /\ UNCHANGED <<data, widgets, subregion_options, store, outputs, call, last>>

NextUI ==
    \/ SelectContinent
    \/ SelectSubregion
    \/ SelectCountry
    \/ RunStoreData
    \/ RunUpdateSubregions
    \/ RunUpdateCountries

SpecUI == InitUI /\ [][NextUI]_vars

-----------------------------------------------------------------------------
(* SpecAgg: the two maps *)

DamageTables == {damage_bins_K, damage_bins_M, damage_bins_B}

CountTables == {count_bins_low, count_bins_mid, count_bins_high}

categories(map) == { map.rows[i].category : i \in 1..Len(map.rows) }

placeholders(map) == { i \in 1..Len(map.rows) : map.rows[i].country = None }

HasEveryLabel(map, tables) ==
    /\ \E t \in tables : t.labels = map.labels
    /\ Range(map.labels) \subseteq categories(map)
    /\ Cardinality(categories(map) \ {nan}) = Len(map.labels)

\* C11: on a non-empty subset each map ends without raising, and the frame it
\* plots holds every label of the table it chose at least once, however many
\* of the labels no country falls under.
C11_EveryLabelPresent ==
    Len(store) > 0 =>
        /\ Ran("mapA_damage_choropleth") =>
              /\ "mapA_damage_choropleth" \notin last.raised
              /\ HasEveryLabel(damage_map, DamageTables)
        /\ Ran("mapB_disaster_count_choropleth") =>
              /\ "mapB_disaster_count_choropleth" \notin last.raised
              /\ HasEveryLabel(count_map, CountTables)

C11_Witness ==
    /\ pending = {} /\ Len(store) > 0
    /\ count_map.labels = count_bins_mid.labels
    /\ placeholders(damage_map) # {}
    /\ placeholders(count_map) # {}

\* A country's rows all carry one and the same label of the table.
OneLabel(map, c) ==
    /\ \E i \in 1..Len(map.rows) : map.rows[i].country = c
    /\ \E l \in Range(map.labels) :
          \A i \in 1..Len(map.rows) : map.rows[i].country = c => map.rows[i].category = l

IsPartition(map) ==
    LET input == Range(column(store, "country"))
    IN  /\ \A c \in input : OneLabel(map, c)
        /\ \A i \in 1..Len(map.rows) :
              map.rows[i].country \notin input =>
                  /\ map.rows[i].country = None
                  /\ map.rows[i].category \in Range(map.labels)
                  /\ \A j \in 1..Len(map.rows) :
                        map.rows[j].category = map.rows[i].category => j = i

\* C12: each map gives every country of the subset exactly one label of its
\* table, and the only rows that are not of a country of the subset are the
\* placeholders with no country, one for each label no country has.
C12_CountriesPartitioned ==
    /\ (Ran("mapA_damage_choropleth") /\ Len(store) > 0) => IsPartition(damage_map)
    /\ (Ran("mapB_disaster_count_choropleth") /\ Len(store) > 0) => IsPartition(count_map)

C12_Witness ==
    /\ pending = {}
    /\ Cardinality(Range(column(store, "country"))) >= 3
    /\ \E i \in 1..Len(damage_map.rows) :
          damage_map.rows[i].country # None /\ damage_map.rows[i].value = 0
    /\ Cardinality(categories(damage_map)) = Len(damage_map.labels)
    /\ Len(damage_map.rows) - Cardinality(placeholders(damage_map)) = Len(store)
    /\ placeholders(count_map) # {}

\* C13: on the empty subset each map ends without raising and plots a single
\* bin covering zero, with no country in it.
C13_EmptySubsetSingleBin ==
    (pending = {} /\ Len(store) = 0) =>
        /\ "mapA_damage_choropleth" \notin last.raised
        /\ "mapB_disaster_count_choropleth" \notin last.raised
        /\ Len(damage_map.labels) = 1 /\ Len(count_map.labels) = 1
        /\ \A i \in 1..Len(damage_map.rows) : damage_map.rows[i].country = None
        /\ \A i \in 1..Len(count_map.rows) : count_map.rows[i].country = None


-----------------------------------------------------------------------------
(* utils.py: generate_header and format_value *)

\* Python values of the three types the functions tell apart
NoneType == [type |-> "NoneType"]

int(n) == [type |-> "int", value |-> n]

list(s) == [type |-> "list", value |-> s]

\* bool(v): None, 0 and the empty list are false
truthy(v) ==
    CASE v.type = "NoneType" -> FALSE
      [] v.type = "int"      -> v.value # 0
      [] v.type = "list"     -> Len(v.value) > 0

month_map == <<"January", "February", "March", "April", "May", "June", "July",
               "August", "September", "October", "November", "December">>

\* The disaster names appended to the header text.
disasters_part(selected_disasters) ==
    IF Len(selected_disasters) = 1 THEN selected_disasters[1]
    ELSE IF Len(selected_disasters) = 2
         THEN selected_disasters[1] \o " and " \o selected_disasters[2]
    ELSE "disasters"

\* The year part with a range for every list, equal ends included: a faulty
\* variant of year_part.
year_part_always_range(year) ==
    IF year.type = "list"
    THEN ", " \o ToString(year.value[1]) \o " to " \o ToString(year.value[2])
    ELSE IF year.type # "NoneType" THEN " in " \o ToString(year.value)
    ELSE ""

\* The year or range of years appended to the header text.
year_part(year) ==
    IF year.type = "list"
    THEN IF year.value[1] # year.value[2]
         THEN ", " \o ToString(year.value[1]) \o " to "
                   \o ToString(year.value[2])
         ELSE " in " \o ToString(year.value[1])
    ELSE IF year.type # "NoneType" THEN " in " \o ToString(year.value)
    ELSE ""

\* generate_header.  month_map[selected_month] raises TypeError for a list (it
\* cannot be hashed) and KeyError for an int that is no month.
generate_header(header_text, selected_disasters, year, month) ==
    LET text == header_text \o disasters_part(selected_disasters) \o year_part(year)
    IN  IF ~truthy(month) THEN [status |-> "ok", text |-> text]
        ELSE IF month.type = "list" THEN [status |-> "raised", error |-> "TypeError"]
        ELSE IF month.value \notin 1..12 THEN [status |-> "raised", error |-> "KeyError"]
        ELSE [status |-> "ok", text |-> text \o " in " \o month_map[month.value]]

\* The base texts of the four card headers, in the order of the Outputs.
base_headers == <<"Total damage (in US$) inflicted by ", "Total number of ", "Trends of ",
                  "Number of deaths by time from ">>

\* generate_card_name: the four headers, or the exception of the first call of
\* generate_header that raises.
generate_card_name(year, month, disaster_type) ==
    LET header(k) == generate_header(base_headers[k], disaster_type,
                                     year, month)
    IN  IF \E k \in 1..Len(base_headers) : header(k).status = "raised"
        THEN header(CHOOSE k \in 1..Len(base_headers) :
                      /\ header(k).status = "raised"
                      /\ \A j \in 1..(k - 1) : header(j).status = "ok")
        ELSE [status |-> "ok", texts |-> [k \in 1..Len(base_headers) |-> header(k).text]]

\* The tenths of value / den cut off instead of rounded: a faulty variant of
\* round_1f.
round_1f_floor(value, den) == { value \div (den \div 10) }

\* The tenths that f"{value / den:.1f}" can show: the nearest one.  Halfway
\* between two tenths the quotient is exact in binary only when it ends in .25
\* or .75, and is then rounded to the even tenth; any other halfway quotient is
\* stored slightly above or below, so either neighbour can result.
round_1f(value, den) ==
    LET u == den \div 10
        q == value \div u
        r == value % u
    IN  IF 2 * r < u THEN {q}
        ELSE IF 2 * r > u THEN {q + 1}
        ELSE IF (2 * q + 1) % 5 = 0 THEN {IF q % 2 = 0 THEN q ELSE q + 1}
        ELSE {q, q + 1}

\* The text of a number of tenths with one decimal and a suffix.
one_decimal(tenths, suffix) ==
    ToString(tenths \div 10) \o "." \o ToString(tenths % 10) \o suffix

\* format_value: the strings it can return for a value that is None or a
\* non-negative int.
format_value(value) ==
    IF value.type = "NoneType" THEN {"N/A"}
    ELSE IF value.value < 1000 THEN {ToString(value.value)}
    ELSE IF value.value < 1000000
         THEN { one_decimal(t, "K") : t \in round_1f(value.value, 1000) }
    ELSE IF value.value < 1000000000
         THEN { one_decimal(t, "M") : t \in round_1f(value.value, 1000000) }
    ELSE { one_decimal(t, "B") : t \in round_1f(value.value, 1000000000) }

-----------------------------------------------------------------------------
(* SpecFn: calls of generate_header, generate_card_name and format_value *)

DisasterLists == {<<>>, <<"Flood">>, <<"Storm">>, <<"Flood", "Storm">>, <<"Storm", "Flood">>,
                  <<"Drought", "Flood", "Storm">>}

YearLists == {list(<<2005, 2010>>), list(<<2010, 2010>>), list(<<2000, 2024>>)}

\* What the month dropdown (multi=True) delivers: None, or a list of months
MonthLists == {NoneType, list(<<>>), list(<<7>>), list(<<3, 7>>)}

HeaderCalls ==
    { [fn |-> "generate_header",
       args |-> [header_text |-> h, selected_disasters |-> d, selected_year |-> y,
                 selected_month |-> m],
       result |-> Unset] :
      h \in {"Trends of ", "Total number of "}, d \in DisasterLists,
      y \in YearLists \cup {int(2010), NoneType},
      m \in MonthLists \cup {int(7), int(12)} }

CardNameCalls ==
    { [fn |-> "generate_card_name",
       args |-> [selected_year |-> y, selected_month |-> m, selected_disaster_type |-> d],
       result |-> Unset] :
      y \in YearLists, m \in MonthLists, d \in DisasterLists }

FormatCalls ==
    { [fn |-> "format_value", args |-> [value |-> v], result |-> Unset] :
      v \in {NoneType} \cup
            { int(n) : n \in {0, 7, 999, 1000, 1049, 1050, 1250, 1500, 1560, 1750,
                              999949, 999950, 999999, 1000000, 2300000, 2350000,
                              999999999, 1000000000, 1500000000, 2147483647} } }

\* The page is loaded and a callback is about to call one of the functions.
InitFn ==
    /\ data = LoadData(SubSeq(Excel, 1, MaxRecords))
    /\ selected_continent = {}
    /\ selected_subregion = {}
    /\ selected_country = {}
    /\ selected_year = <<2000, 2024>>
    /\ selected_month = {}
    /\ selected_disaster_type = disaster_types(data)
    /\ subregion_options = update_subregions(data, {})
    /\ country_options = update_countries(data, {}, {})
    /\ store = store_data(data, {}, {}, {}, <<2000, 2024>>, {}, disaster_types(data)).records
    /\ cards = Unset
    /\ bar_fig = Unset
    /\ line_fig = Unset
    /\ damage_map = Unset
    /\ count_map = Unset
    /\ pending = {}
    /\ last = [raised |-> {}]
    /\ call \in HeaderCalls \cup CardNameCalls \cup FormatCalls

Return(result) ==
    /\ call.result = Unset
    /\ call' = [call EXCEPT !.result = result]
    /\ UNCHANGED <<data, widgets, subregion_options, country_options, store, outputs,
                   pending, last>>

CallGenerateHeader ==
    /\ call.fn = "generate_header"
    /\ Return(generate_header(call.args.header_text, call.args.selected_disasters,
                              call.args.selected_year, call.args.selected_month))

CallGenerateCardName ==
    /\ call.fn = "generate_card_name"
    /\ Return(generate_card_name(call.args.selected_year, call.args.selected_month,
                                 call.args.selected_disaster_type))

CallFormatValue ==
    /\ call.fn = "format_value"
    /\ \E text \in format_value(call.args.value) : Return([status |-> "ok", text |-> text])

NextFn ==
    \/ CallGenerateHeader
    \/ CallGenerateCardName
    \/ CallFormatValue

SpecFn == InitFn /\ [][NextFn]_vars

Returned_by(fn) == call.fn = fn /\ call.result # Unset

\* C14: generate_header appends the one type's name, "A and B" for two types
\* and "disasters" for none or three and more, then " in {year}" when the
\* range's start equals its end and ", {start} to {end}" otherwise; so
\* ("Trends of ", ["Flood", "Storm"], [2005, 2010], None) gives
\* "Trends of Flood and Storm, 2005 to 2010".
C14_HeaderTypesAndYears ==
    (/\ Returned_by("generate_header")
     /\ call.args.selected_year.type = "list"
     /\ call.args.selected_month = NoneType) =>
        LET d == call.args.selected_disasters
            y == call.args.selected_year.value
            types == CASE Len(d) = 1 -> d[1]
                       [] Len(d) = 2 -> d[1] \o " and " \o d[2]
                       [] OTHER      -> "disasters"
            years == IF y[1] = y[2] THEN " in " \o ToString(y[1])
                     ELSE ", " \o ToString(y[1]) \o " to " \o ToString(y[2])
        IN  /\ call.result = [status |-> "ok",
                              text |-> call.args.header_text \o types \o years]
            /\ (/\ call.args.header_text = "Trends of "
                /\ d = <<"Flood", "Storm">> /\ y = <<2005, 2010>>)
               => call.result.text = "Trends of Flood and Storm, 2005 to 2010"

C14_Witness ==
    /\ Returned_by("generate_header")
    /\ call.args.selected_month = NoneType
    /\ call.args.selected_year = list(<<2010, 2010>>)
    /\ call.result = [status |-> "ok", text |-> "Total number of disasters in 2010"]

\* C15: for every value the month dropdown delivers (none, a list of one
\* month, a list of several) generate_card_name returns four headers without
\* raising; with one month every header ends with that month's name, and with
\* several no header names a month.
C15_HeaderForEveryMonthSelection ==
    Returned_by("generate_card_name") =>
        LET m == call.args.selected_month
            plain(k) == generate_header(base_headers[k], call.args.selected_disaster_type,
                                        call.args.selected_year, NoneType).text
        IN  /\ call.result.status = "ok"
            /\ \A k \in 1..Len(base_headers) :
                 call.result.texts[k] =
                    IF m.type = "list" /\ Len(m.value) = 1
                    THEN plain(k) \o " in " \o month_map[m.value[1]]
                    ELSE plain(k)

\* C16: format_value gives "N/A" for None and, for a non-negative integer n,
\* n itself below 1,000, n/1,000 with one decimal and K below 1,000,000,
\* n/1,000,000 with one decimal and M below 1,000,000,000 and n/1,000,000,000
\* with one decimal and B from there on: "999", "1.5K" and "2.3M" for 999,
\* 1500 and 2,300,000.
OneDecimalOf(text, n, den, suffix) ==
    LET u == den \div 10
    IN  \E t \in (n \div u)..((n \div u) + 1) :
           /\ (IF n >= t * u THEN 2 * (n - t * u) ELSE 2 * (t * u - n)) <= u
           /\ text = ToString(t \div 10) \o "." \o ToString(t % 10) \o suffix

C16_FormatValueSuffixes ==
    Returned_by("format_value") =>
        LET v == call.args.value
            text == call.result.text
        IN  /\ v = NoneType => text = "N/A"
            /\ v # NoneType =>
                 LET n == v.value
                 IN  /\ n < 1000 => text = ToString(n)
                     /\ (1000 <= n /\ n < 1000000) => OneDecimalOf(text, n, 1000, "K")
                     /\ (1000000 <= n /\ n < 1000000000) => OneDecimalOf(text, n, 1000000, "M")
                     /\ 1000000000 <= n => OneDecimalOf(text, n, 1000000000, "B")
                     /\ n = 999 => text = "999"
                     /\ n = 1500 => text = "1.5K"
                     /\ n = 2300000 => text = "2.3M"

C16_Witness ==
    /\ Returned_by("format_value")
    /\ call.args.value = int(1560)
    /\ call.result.text = "1.6K"


-----------------------------------------------------------------------------
(* Spec: store_data on rows without a month *)

\* C20: store_data never raises, whatever the criteria and the rows: also when
\* months are selected and a row has no month, it stores the subset, which
\* then holds no row without a month.
C20_StoreDataIsTotal ==
    /\ "store_data" \notin last.raised
    /\ selected_month # {} => \A i \in 1..Len(store) : ~IsNaN(store[i].month)


-----------------------------------------------------------------------------
(* SpecChain: a filter changes or is reset, store_data runs, and the callbacks
   that read the store follow *)

\* reset_filters with None for the disaster types: a faulty variant.
reset_filters_no_types(n_clicks) ==
    [continent |-> {}, subregion |-> {}, country |-> {}, year |-> <<2000, 2024>>,
     month |-> {}, disaster_type |-> {}]

\* reset_filters: the six values it returns; None is the empty selection.
reset_filters(n_clicks) ==
    [continent |-> {}, subregion |-> {}, country |-> {}, year |-> <<2000, 2024>>,
     month |-> {}, disaster_type |-> disaster_types(data)]

\* The page as loaded, the filter callbacks run, the chart callbacks due.
InitChain ==
    /\ data \in { LoadData(sheet) : sheet \in Spreadsheets }
    /\ selected_continent = {}
    /\ selected_subregion = {}
    /\ selected_country = {}
    /\ selected_year = <<2000, 2024>>
    /\ selected_month = {}
    /\ selected_disaster_type = disaster_types(data)
    /\ subregion_options = update_subregions(data, {})
    /\ country_options = update_countries(data, {}, {})
    /\ store = store_data(data, {}, {}, {}, <<2000, 2024>>, {}, disaster_types(data)).records
    /\ cards = Unset
    /\ bar_fig = Unset
    /\ line_fig = Unset
    /\ damage_map = Unset
    /\ count_map = Unset
    /\ call = Unset
    /\ pending = ChartCallbacks
    /\ last = [raised |-> {}, event |-> "load", moved |-> FALSE]

\* The six inputs take new values once the page has settled: store_data runs
\* with them, so do update_subregions and update_countries, and when store_data
\* has stored a subset the callbacks that read it are due.
Trigger(v, event) ==
    LET r == store_data(data, v.continent, v.subregion, v.country, v.year, v.month,
                        v.disaster_type)
    IN  /\ pending = {}
        /\ selected_continent' = v.continent
        /\ selected_subregion' = v.subregion
        /\ selected_country' = v.country
        /\ selected_year' = v.year
        /\ selected_month' = v.month
        /\ selected_disaster_type' = v.disaster_type
        /\ data' = r.frame
        /\ store' = IF r.raised THEN store ELSE r.records
        /\ subregion_options' = update_subregions(data, v.continent)
        /\ country_options' = update_countries(data, v.continent, v.subregion)
        /\ pending' = IF r.raised THEN {} ELSE ChartCallbacks
        /\ last' = [raised |-> IF r.raised THEN {"store_data"} ELSE {},
                    event  |-> event,
                    moved  |-> <<v.continent, v.subregion, v.country, v.year, v.month,
                                 v.disaster_type>> # widgets]
        /\ UNCHANGED <<outputs, call>>

current ==
    [continent |-> selected_continent, subregion |-> selected_subregion,
     country |-> selected_country, year |-> selected_year, month |-> selected_month,
     disaster_type |-> selected_disaster_type]

ChangeContinent ==
    \E v \in {{}, {"Europe"}} \ {selected_continent} :
        Trigger([current EXCEPT !.continent = v], "change")

ChangeCountry ==
    \E v \in {{}, {"Japan"}} \ {selected_country} :
        Trigger([current EXCEPT !.country = v], "change")

ChangeYear ==
    \E v \in {<<2000, 2024>>, <<2005, 2010>>} \ {selected_year} :
        Trigger([current EXCEPT !.year = v], "change")

ChangeMonth ==
    \E v \in {{}, {7}} \ {selected_month} :
        Trigger([current EXCEPT !.month = v], "change")

ChangeDisasterType ==
    \E v \in {disaster_types(data), {"Storm"}} \ {selected_disaster_type} :
        Trigger([current EXCEPT !.disaster_type = v], "change")

\* The clear-filter button is clicked.
ResetFilters ==
    /\ pending = {}
    /\ Trigger(reset_filters(1), "reset")

NextChain ==
    \/ ChangeContinent
    \/ ChangeCountry
    \/ ChangeYear
    \/ ChangeMonth
    \/ ChangeDisasterType
    \/ ResetFilters
    \/ RunUpdateStatCards
    \/ RunPlotBar
    \/ RunPlotLine
    \/ RunMapA
    \/ RunMapB

SpecChain == InitChain /\ [][NextChain]_vars

\* C17: whenever the callbacks have settled, the store holds the subset of the
\* current criteria and the cards, the two maps, the bar chart and the trend
\* line are those computed from that subset.
C17_OutputsFollowCriteria ==
    pending = {} =>
        /\ store = store_data(data, selected_continent, selected_subregion, selected_country,
                              selected_year, selected_month, selected_disaster_type).records
        /\ last.raised = {}
        /\ cards = update_stat_cards(store)
        /\ bar_fig = plot_bar_total_disaster(store)
        /\ line_fig = plot_line_casualty_trend(store)
        /\ damage_map = mapA_damage_choropleth(store)
        /\ count_map = mapB_disaster_count_choropleth(store)

\* C19: a reset leaves continents, subregions, countries and months empty, the
\* year range [2000, 2024] and every disaster type selected, and once the
\* callbacks have settled the store holds the subset of these criteria.
C19_ResetRestoresDefaults ==
    last.event = "reset" =>
        /\ selected_continent = {} /\ selected_subregion = {} /\ selected_country = {}
        /\ selected_month = {}
        /\ selected_year = <<2000, 2024>>
        /\ selected_disaster_type = disaster_types(data)
        /\ "store_data" \notin last.raised
        /\ store = filter_rows(data, {}, {}, {}, <<2000, 2024>>, {}, disaster_types(data))

C19_Witness ==
    /\ last.event = "reset"
    /\ last.moved
    /\ pending = {}
    /\ Len(store) > 0


-----------------------------------------------------------------------------
(* SpecAgg: the bins of the two maps *)

TableOf(map) == CHOOSE t \in DamageTables \cup CountTables : t.labels = map.labels

Plotted(callback, map) ==
    Ran(callback) /\ callback \notin last.raised /\ Len(store) > 0 /\ map # Unset

real_rows(map) == SelectSeq(map.rows, LAMBDA r : r.country # None)

\* Every country's value lies in the bin (lower, upper] of its label, the first
\* bin holding its lower edge as well.
InRightClosedBin(map) ==
    LET t == TableOf(map)
        n == Len(t.bins)
    IN  \A k \in 1..Len(real_rows(map)) :
           LET v == real_rows(map)[k].value
               i == category_code(t.labels, real_rows(map)[k].category)
           IN  /\ i <= n
               /\ above(v, t.bins[i], t.unit) \/ (i = 1 /\ v = t.bins[1] * t.unit)
               /\ i = n \/ ~above(v, t.bins[i + 1], t.unit)

\* Every country's value lies in the bin [lower, upper) of its label.
InLeftClosedBin(map) ==
    LET t == TableOf(map)
        n == Len(t.bins)
    IN  \A k \in 1..Len(real_rows(map)) :
           LET v == real_rows(map)[k].value
               i == category_code(t.labels, real_rows(map)[k].category)
           IN  /\ i <= n
               /\ at_least(v, t.bins[i], t.unit)
               /\ i = n \/ ~at_least(v, t.bins[i + 1], t.unit)

\* C21 as stated: both maps put a value v under the label of the bin with
\* lower <= v < upper, so a value equal to an interior edge goes to the bin
\* that starts there.
C21_BinsClosedOnTheLeft ==
    /\ Plotted("mapA_damage_choropleth", damage_map) => InLeftClosedBin(damage_map)
    /\ Plotted("mapB_disaster_count_choropleth", count_map) => InLeftClosedBin(count_map)

\* C21 as the code has it: both maps put a value v under the label of the bin
\* with lower < v <= upper, the first bin holding 0 as well, so a value equal
\* to an interior edge goes to the bin that ends there.
C21_BinsClosedOnTheRight ==
    /\ Plotted("mapA_damage_choropleth", damage_map) => InRightClosedBin(damage_map)
    /\ Plotted("mapB_disaster_count_choropleth", count_map) => InRightClosedBin(count_map)

C21_Witness ==
    /\ Plotted("mapA_damage_choropleth", damage_map)
    /\ Plotted("mapB_disaster_count_choropleth", count_map)
    /\ \E k \in 1..Len(damage_map.rows) :
          /\ damage_map.rows[k].country # None
          /\ damage_map.rows[k].value = 1000
          /\ damage_map.rows[k].category = "0 - 1K"
    /\ \E k \in 1..Len(count_map.rows) :
          /\ count_map.rows[k].country # None
          /\ count_map.rows[k].value = 20
          /\ count_map.rows[k].category = "10 - 20"


\* C22: the median that selects a map's table is the median of the values of
\* the countries, each country counted once.
C22_MedianOverCountries ==
    /\ Plotted("mapA_damage_choropleth", damage_map) =>
          damage_map.labels =
             damage_table(median(column(groupby_country_sum(store, "total_damage"),
                                        "value"))).labels
    /\ Plotted("mapB_disaster_count_choropleth", count_map) =>
          count_map.labels =
             count_table(median(column(groupby_country_count(store), "value"))).labels


\* The median of the column a map cuts into bins.
median_of(map) == median(column(real_rows(map), "value"))

ZeroPlaceholders(map) ==
    \A l \in Range(map.labels) :
       LET under  == { k \in 1..Len(map.rows) : map.rows[k].category = l }
           absent == { k \in under : map.rows[k].country = None }
       IN  IF under = absent
           THEN Cardinality(absent) = 1 /\ \A k \in absent : map.rows[k].value = 0
           ELSE absent = {}

\* C24: for each label of the chosen table that no country falls under, both
\* maps add exactly one row whose country is null and whose value is zero, and
\* none for a label that has a country.
C24_OneZeroPlaceholderPerEmptyLabel ==
    /\ Plotted("mapA_damage_choropleth", damage_map) => ZeroPlaceholders(damage_map)
    /\ Plotted("mapB_disaster_count_choropleth", count_map) => ZeroPlaceholders(count_map)


\* Label i has colour i of map_color, and the rows follow the labels' positions.
PositionalColours(map) ==
    /\ Len(map.labels) <= Len(map_color)
    /\ DOMAIN map.category_color = Range(map.labels)
    /\ \A i \in 1..Len(map.labels) : map.category_color[map.labels[i]] = map_color[i]
    /\ \A j, k \in 1..Len(map.rows) :
          j < k => category_code(map.labels, map.rows[j].category)
                      <= category_code(map.labels, map.rows[k].category)

\* C25: in both maps the label at position i of the table has the colour at
\* position i of map_color, no table has more labels than map_color has
\* colours, and the rows are in the order of their label's position in the
\* table, whatever the alphabetical order of the labels.
C25_ColoursAndOrderByPosition ==
    /\ \A t \in DamageTables \cup CountTables : Len(t.labels) <= Len(map_color)
    /\ Plotted("mapA_damage_choropleth", damage_map) => PositionalColours(damage_map)
    /\ Plotted("mapB_disaster_count_choropleth", count_map) => PositionalColours(count_map)

\* "10K - 100K" comes before "100K - 1M" although it is after it alphabetically,
\* and a placeholder row comes before the row of a country.
C25_Witness ==
    /\ Plotted("mapA_damage_choropleth", damage_map)
    /\ Plotted("mapB_disaster_count_choropleth", count_map)
    /\ \E j, k \in 1..Len(damage_map.rows) :
          /\ j < k
          /\ damage_map.rows[j].category = "10K - 100K"
          /\ damage_map.rows[k].category = "100K - 1M"
    /\ \E j, k \in 1..Len(damage_map.rows) :
          j < k /\ damage_map.rows[j].country = None /\ damage_map.rows[k].country # None
    /\ damage_map.category_color["> 1M"] = "#712805"


-----------------------------------------------------------------------------
(* SpecAgg: the sums of the cards and of the trend line *)

\* The sum of the values of a field that are not null, over the rows kept.
RECURSIVE SumWhere(_, _, _, _)
SumWhere(rows, field, keep(_), i) ==
    IF i > Len(rows) THEN 0
    ELSE (IF keep(rows[i]) /\ ~IsNaN(rows[i][field]) THEN rows[i][field] ELSE 0)
         + SumWhere(rows, field, keep, i + 1)

CountrySum(c, field) == SumWhere(store, field, LAMBDA r : r.country = c, 1)

\* c has the largest sum of the field, and of the countries that have it c is
\* the first by name.
FirstByNameOfLargest(c, field) ==
    /\ c \in Range(column(store, "country"))
    /\ \A o \in Range(column(store, "country")) \ {c} :
          \/ CountrySum(o, field) < CountrySum(c, field)
          \/ CountrySum(o, field) = CountrySum(c, field) /\ name_lt(c, o)

Shown(callback, output) ==
    Ran(callback) /\ callback \notin last.raised /\ Len(store) > 0 /\ output # Unset

YearsOfStore == Range(column(store, "year"))

-----------------------------------------------------------------------------
(* Spec: the disaster types and the country options against store_data *)

\* The subset store_data returns for the current criteria with the disaster
\* types replaced.
SubsetWithTypes(dtype) ==
    store_data(data, selected_continent, selected_subregion, selected_country,
               selected_year, selected_month, dtype).records

\* C29: with every checkbox unchecked store_data puts no restriction on the
\* type: the subset is the one it returns for the full list of the dataset's
\* types, the other criteria being equal.
C29_NoTypeIsEveryType ==
    (Returned /\ selected_disaster_type \in {{}, disaster_types(data)}) =>
        /\ store = SubsetWithTypes({})
        /\ store = SubsetWithTypes(disaster_types(data))

C29_Witness ==
    /\ Returned
    /\ selected_disaster_type = {}
    /\ selected_country # {}
    /\ Cardinality(Range(column(store, "type"))) >= 2
    /\ Len(store) < Len(data)

\* The subset store_data returns for the selected continents and subregions,
\* the given countries and every other criterion as the layout sets it.
SubsetOfGeography(country) ==
    store_data(data, selected_continent, selected_subregion, country,
               <<2000, 2024>>, {}, disaster_types(data)).records

\* C30: the country options and the filter agree: each country listed for the
\* selected continents and subregions, selected with them and with the other
\* criteria at their defaults, gives a non-empty subset, and every country of
\* the subset of that geography is listed.
C30_CountryOptionsAgreeWithFilter ==
    /\ \A c \in Range(country_options) : SubsetOfGeography({c}) # <<>>
    /\ Range(column(SubsetOfGeography({}), "country")) \subseteq Range(country_options)

\* Only the second half of C30: the countries of the geography's subset are
\* listed.
C30_SubsetCountriesAreListed ==
    Range(column(SubsetOfGeography({}), "country")) \subseteq Range(country_options)

=============================================================================
